---- MODULE Spec2Model ----
(***************************************************************************)
(* A model of the simple-state-machine library (package ssm):              *)
(* state_machine.go (StateMachine) and state_config.go (StateConfig).      *)
(*                                                                         *)
(* A *StateConfig is identified with the State it was registered for: the  *)
(* registry stateToConfig creates one StateConfig per State and never      *)
(* replaces it, so a pointer to a configuration and its State key name the *)
(* same object.  A nil pointer is Nil.                                     *)
(*                                                                         *)
(* A guard predicate is the closure  func() bool { return allow }  of the  *)
(* tests: guard g reads the caller's variable allow[g].  A hook is a       *)
(* closure that records that it ran; each invocation is appended to the    *)
(* call log of the Fire that invoked it.                                   *)
(*                                                                         *)
(* Configure, Permit, PermitIf, OnEnter, OnEnterFrom, OnExit, SubstateOf   *)
(* and Fire are actions.  CanFire, IsInState and State assign nothing:     *)
(* they are operators on the state.  The loops of Fire and IsInState over  *)
(* the parent references do not end on a cyclic chain; such a call has the *)
(* result Diverges, and after a Fire that diverges no further call is made. *)
(* A hook closure of PanicHooks panics: Fire has no recover, so the panic   *)
(* leaves Fire with the result Panicked, the caller recovers and goes on.   *)
(* Spec is driven by caller programs whose hooks return; SpecPanic and     *)
(* SpecOverwrite are the same machine driven by a program with a panicking *)
(* hook, and by one that registers hooks and parents a second time.        *)
(* A hook closure of ReentrantHooks calls sm.Fire(NestedKey, nil): FireRun  *)
(* gives Fire as a function of the sm.current it is entered with, nested    *)
(* calls included; SpecReentrant is the machine driven by a program with    *)
(* such a hook.                                                             *)
(***************************************************************************)
EXTENDS Integers, Sequences, FiniteSets, TLC

\* ------------------------------------------------------------------ bounds
\* How many configuration calls of each kind each caller program makes at
\* most (the caller programs are defined below).
GuardPermitCalls == 1
GuardPermitIfCalls == 2
GuardHookCalls == 1
HierPermitCalls == 1
HierHookCalls == 2
HierSubstateCalls == 2
HookPermitCalls == 2
HookHookCalls == 3
PanicPermitCalls == 1
PanicHookCalls == 3
OverwritePermitCalls == 1
OverwriteHookCalls == 2
OverwriteSubstateCalls == 2
ReentrantPermitCalls == 2
ReentrantHookCalls == 3
ReentrantSubstateCalls == 1

\* ---------------------------------------------------------- value universes
States == {"s1", "s2", "s3"}
Keys == {"tr1", "tr2"}
Guards == {"g1", "g2"}
\* The hook closures a caller may register.
Hooks == {"h1", "h2"}
\* The hook closures that do not return: they abort with a panic.
PanicHooks == {"hp"}
\* The hook closures that call back into the machine: a closure
\* func() { sm.Fire(NestedKey, nil) }  that ignores the error Fire returns.
ReentrantHooks == {"hf"}
NestedKey == "tr2"
Ctxs == {"c1", "c2"}

Nil == "nil"
NoHook == "nohook"

\* type Trigger struct { Key string }
Trigger(k) == [Key |-> k]

\* errors.New("unsupported trigger")
ErrUnsupported == "unsupported trigger"

\* The caller programs: the State, Trigger, guard and hook values a program
\* declares, and how many configuration calls of each kind it makes.
\* A program that builds guarded edges between two states.
GuardCaller ==
    [states |-> {"s1", "s2"}, keys |-> Keys, guards |-> Guards, hooks |-> {"h1"},
     permit |-> GuardPermitCalls, permitIf |-> GuardPermitIfCalls,
     hook |-> GuardHookCalls, sub |-> 0]
\* A program that builds a hierarchy of three states.
HierCaller ==
    [states |-> States, keys |-> {"tr1"}, guards |-> {}, hooks |-> {"h1"},
     permit |-> HierPermitCalls, permitIf |-> 0,
     hook |-> HierHookCalls, sub |-> HierSubstateCalls]
\* A program that registers hooks on two states.
HookCaller ==
    [states |-> {"s1", "s2"}, keys |-> Keys, guards |-> {}, hooks |-> {"h1"},
     permit |-> HookPermitCalls, permitIf |-> 0,
     hook |-> HookHookCalls, sub |-> 0]
Callers == {GuardCaller, HierCaller, HookCaller}
\* A program one of whose hook closures panics.
PanicCaller ==
    [states |-> {"s1", "s2"}, keys |-> {"tr1"}, guards |-> {}, hooks |-> {"h1"} \cup PanicHooks,
     permit |-> PanicPermitCalls, permitIf |-> 0,
     hook |-> PanicHookCalls, sub |-> 0]

VARIABLES
    current,        \* StateMachine.current: the State whose config is current
    stateToConfig,  \* StateMachine.stateToConfig: State -> StateConfig
    allow,          \* the variables the guard closures read
    last,           \* the most recent Fire call: what it did and returned
    permitHist,     \* history of the Permit/PermitIf calls per (state, key)
    caller,         \* the caller program driving the machine
    ncalls          \* history: configuration calls made so far, per kind

vars == <<current, stateToConfig, allow, last, permitHist, caller, ncalls>>

\* ------------------------------------------------------------------ helpers
\* m[k] = v on a Go map
MapPut(m, k, v) == [x \in (DOMAIN m) \cup {k} |-> IF x = k THEN v ELSE m[x]]

\* type edge struct { trigger; state; preds }
Edge(t, s, ps) == [trigger |-> t, state |-> s, preds |-> ps]

\* NewStateConfig: no hooks, no parent, empty maps
NewStateConfig(s) ==
    [state |-> s,
     parent |-> Nil,
     onEnter |-> NoHook,
     onExit |-> NoHook,
     onEnterFrom |-> [t \in {} |-> NoHook],
     permitted |-> [k \in {} |-> Nil]]

\* registerStateConfig storing a new blank configuration on every call.
registerStateConfigOverwrites(reg, s) == MapPut(reg, s, NewStateConfig(s))

\* registerStateConfig: get-or-create; the registry after the call
registerStateConfig(reg, s) ==
    IF s \in DOMAIN reg THEN reg ELSE MapPut(reg, s, NewStateConfig(s))

\* State(): sm.current.state
State == stateToConfig[current].state

\* last when the most recent call was not a Fire.
NoCall ==
    [op |-> "none", key |-> Nil, from |-> Nil, ret |-> Nil,
     calls |-> <<>>, evals |-> <<>>]

\* One hook invocation: which hook ran, registered as what on which state
\* (and for which trigger, for onEnterFrom), the argument it received, and
\* the State() it could observe.
HookCall(kind, s, t, h, a, seen) ==
    [kind |-> kind, on |-> s, trigger |-> t, hook |-> h, arg |-> a, seen |-> seen]

\* The result of a call that entered a loop it never leaves.
Diverges == "diverges"

\* The result of a call that a panic of a hook ended: it did not return.
Panicked == "panic"

\* ------------------------------------------------------------------ CanFire
\* PredLoop with the break taken after the first guard, whatever it returned.
PredLoopFirstOnly(preds, i) ==
    IF i > Len(preds)
    THEN [found |-> FALSE, evals |-> <<>>]
    ELSE [found |-> allow[preds[i]], evals |-> <<preds[i]>>]

\* PredLoop without the break: every guard of the edge is invoked.
PredLoopNoBreak(preds, i) ==
    [found |-> \E j \in i..Len(preds) : allow[preds[j]],
     evals |-> SubSeq(preds, i, Len(preds))]

\* The loop of CanFire over next.preds from index i: found, and the guards
\* that were invoked, in order.
RECURSIVE PredLoop(_, _)
PredLoop(preds, i) ==
    IF i > Len(preds)
    THEN [found |-> FALSE, evals |-> <<>>]
    ELSE IF allow[preds[i]]
         THEN [found |-> TRUE, evals |-> <<preds[i]>>]
         ELSE LET rest == PredLoop(preds, i + 1)
              IN  [found |-> rest.found, evals |-> <<preds[i]>> \o rest.evals]

\* CanFire without the  if !found { return false }  after the loop.
CanFireRunIgnoresFound(triggerKey) ==
    LET permitted == stateToConfig[current].permitted
    IN  IF triggerKey \notin DOMAIN permitted
        THEN [ret |-> FALSE, evals |-> <<>>]
        ELSE [ret |-> TRUE, evals |-> PredLoop(permitted[triggerKey].preds, 1).evals]

\* CanFire(triggerKey): the value returned and the guards invoked.
CanFireRun(triggerKey) ==
    LET permitted == stateToConfig[current].permitted
    IN  IF triggerKey \notin DOMAIN permitted
        THEN [ret |-> FALSE, evals |-> <<>>]
        ELSE LET next == permitted[triggerKey]
             IN  IF Len(next.preds) > 0
                 THEN LET loop == PredLoop(next.preds, 1)
                      IN  [ret |-> loop.found, evals |-> loop.evals]
                 ELSE [ret |-> TRUE, evals |-> <<>>]

CanFire(triggerKey) == CanFireRun(triggerKey).ret

\* ---------------------------------------------------------------- IsInState
\* IsInState looking at the current config and its parent only.
IsInStateLoopOneLevel(c, s, seen) ==
    IF c = Nil THEN "false"
    ELSE IF stateToConfig[c].state = s THEN "true"
    ELSE IF stateToConfig[c].parent /= Nil
            /\ stateToConfig[stateToConfig[c].parent].state = s THEN "true"
    ELSE "false"

\* The loop of IsInState from config c; seen holds the configs already
\* visited: meeting one again without a match means the loop never ends.
RECURSIVE IsInStateLoop(_, _, _)
IsInStateLoop(c, s, seen) ==
    IF c = Nil THEN "false"
    ELSE IF stateToConfig[c].state = s THEN "true"
    ELSE IF c \in seen THEN Diverges
    ELSE IsInStateLoop(stateToConfig[c].parent, s, seen \cup {c})

IsInState(s) == IsInStateLoop(current, s, {})

\* --------------------------------------------------------------------- Fire
\* The substate test of Fire looking two levels up from the target.
SkipsExitWalkTwoLevels(targetParent) ==
    /\ targetParent /= Nil
    /\ \/ stateToConfig[targetParent].state = stateToConfig[current].state
       \/ /\ stateToConfig[targetParent].parent /= Nil
          /\ stateToConfig[stateToConfig[targetParent].parent].state
                 = stateToConfig[current].state

\* Fire, line 65: the target is a direct substate of the current state, so
\* the exit walk is skipped.
SkipsExitWalk(targetParent) ==
    ~(targetParent = Nil \/ stateToConfig[targetParent].state /= stateToConfig[current].state)

\* Fire, lines 66-72: the onExit hooks invoked walking from config c up the
\* parent references; loops when the walk meets a config a second time.
RECURSIVE ExitWalk(_, _)
ExitWalk(c, seen) ==
    IF c = Nil THEN [calls |-> <<>>, loops |-> FALSE]
    ELSE IF c \in seen THEN [calls |-> <<>>, loops |-> TRUE]
    ELSE LET cfg == stateToConfig[c]
             mine == IF cfg.onExit /= NoHook
                     THEN <<HookCall("onExit", cfg.state, Nil, cfg.onExit, Nil, State)>>
                     ELSE <<>>
             rest == ExitWalk(cfg.parent, seen \cup {c})
         IN  [calls |-> mine \o rest.calls, loops |-> rest.loops]

\* Hook invocations with the panic of a hook recovered and the remaining
\* hooks invoked.
RunHooksRecovers(calls) == [calls |-> calls, panics |-> FALSE]

\* The hook invocations that take place when Fire comes to invoke calls in
\* order: Fire has no recover, so a hook that panics is the last one
\* invoked and the panic leaves Fire.
RunHooks(calls) ==
    LET bad == {i \in 1..Len(calls) : calls[i].hook \in PanicHooks}
    IN  IF bad = {}
        THEN [calls |-> calls, panics |-> FALSE]
        ELSE [calls |-> SubSeq(calls, 1, CHOOSE i \in bad : \A j \in bad : i <= j),
              panics |-> TRUE]

\* Fire without the assignment to sm.current.
NextCurrentUnchanged(edge) == stateToConfig[current].state

\* Fire, line 75: the config that becomes current.
NextCurrent(edge) == stateToConfig[edge.state].state

\* The entry hooks of Fire with onEnter invoked before onEnterFrom.
EnterCallsEnterFirst(target, trigger, ctx) ==
    LET cfg == stateToConfig[target]
        from == IF trigger \in DOMAIN cfg.onEnterFrom
                THEN <<HookCall("onEnterFrom", cfg.state, trigger,
                                cfg.onEnterFrom[trigger], ctx, cfg.state)>>
                ELSE <<>>
        enter == IF cfg.onEnter /= NoHook
                 THEN <<HookCall("onEnter", cfg.state, Nil, cfg.onEnter, Nil, cfg.state)>>
                 ELSE <<>>
    IN  enter \o from

\* The entry hooks of Fire with the onEnterFrom hook looked up without the
\* trigger: any hook registered on the target is invoked.
EnterCallsAnyTrigger(target, trigger, ctx) ==
    LET cfg == stateToConfig[target]
        from == IF DOMAIN cfg.onEnterFrom /= {}
                THEN LET t == CHOOSE t \in DOMAIN cfg.onEnterFrom : TRUE
                     IN  <<HookCall("onEnterFrom", cfg.state, t,
                                    cfg.onEnterFrom[t], ctx, cfg.state)>>
                ELSE <<>>
        enter == IF cfg.onEnter /= NoHook
                 THEN <<HookCall("onEnter", cfg.state, Nil, cfg.onEnter, Nil, cfg.state)>>
                 ELSE <<>>
    IN  from \o enter

\* The entry hooks of Fire followed by the OnEnter hook of the target's
\* parent: entering a substate enters its parent too.
EnterCallsParentToo(target, trigger, ctx) ==
    LET cfg == stateToConfig[target]
        from == IF trigger \in DOMAIN cfg.onEnterFrom
                THEN <<HookCall("onEnterFrom", cfg.state, trigger,
                                  cfg.onEnterFrom[trigger], ctx, cfg.state)>>
                ELSE <<>>
        enter == IF cfg.onEnter /= NoHook
                 THEN <<HookCall("onEnter", cfg.state, Nil, cfg.onEnter, Nil, cfg.state)>>
                 ELSE <<>>
        above == IF cfg.parent /= Nil /\ stateToConfig[cfg.parent].onEnter /= NoHook
                 THEN <<HookCall("onEnter", cfg.parent, Nil,
                                 stateToConfig[cfg.parent].onEnter, Nil, cfg.state)>>
                 ELSE <<>>
    IN  from \o enter \o above

\* The entry hooks of Fire invoked before sm.current is reassigned: they
\* observe the state being left.
EnterCallsBeforeReassign(target, trigger, ctx) ==
    LET cfg == stateToConfig[target]
        from == IF trigger \in DOMAIN cfg.onEnterFrom
                THEN <<HookCall("onEnterFrom", cfg.state, trigger,
                                  cfg.onEnterFrom[trigger], ctx, State)>>
                ELSE <<>>
        enter == IF cfg.onEnter /= NoHook
                 THEN <<HookCall("onEnter", cfg.state, Nil, cfg.onEnter, Nil, State)>>
                 ELSE <<>>
    IN  from \o enter

\* Fire, lines 77-84: the entry hooks invoked once target is current.
EnterCalls(target, trigger, ctx) ==
    LET cfg == stateToConfig[target]
        from == IF trigger \in DOMAIN cfg.onEnterFrom
                THEN <<HookCall("onEnterFrom", cfg.state, trigger,
                                  cfg.onEnterFrom[trigger], ctx, cfg.state)>>
                ELSE <<>>
        enter == IF cfg.onEnter /= NoHook
                 THEN <<HookCall("onEnter", cfg.state, Nil, cfg.onEnter, Nil, cfg.state)>>
                 ELSE <<>>
    IN  from \o enter

\* ------------------------------------------- Fire with hooks that call Fire
\* A hook that calls sm.Fire runs a whole nested Fire before the outer Fire
\* goes on, so Fire is given here as a function of the sm.current it finds:
\* each operator returns ret (the outcome), cur (sm.current afterwards) and
\* calls (the hook invocations in order, those of nested Fires included).
\* stack holds the <<sm.current, key>> at which the Fire calls in progress
\* were entered: configuration and guards do not change during a Fire, so a
\* nested Fire entered as one in progress was repeats it without end.

\* CanFire as a nested call finds it: evaluated on the config cur.
CanFireAt(cur, triggerKey) ==
    LET permitted == stateToConfig[cur].permitted
    IN  /\ triggerKey \in DOMAIN permitted
        /\ \/ Len(permitted[triggerKey].preds) = 0
           \/ PredLoop(permitted[triggerKey].preds, 1).found

RECURSIVE FireRun(_, _, _, _)
RECURSIVE HookRun(_, _, _, _, _, _, _)
RECURSIVE WalkRun(_, _, _, _)
RECURSIVE EnterRun(_, _, _, _)

\* One invocation of hook h while sm.current is smcur; a hook of
\* ReentrantHooks runs sm.Fire(NestedKey, nil) and drops its error.
HookRun(kind, on, t, h, arg, smcur, stack) ==
    LET call == HookCall(kind, on, t, h, arg, stateToConfig[smcur].state)
    IN  IF h \in ReentrantHooks
        THEN LET nested == FireRun(smcur, NestedKey, Nil, stack)
             IN  [ret |-> IF nested.ret = Diverges THEN Diverges ELSE "ok",
                  cur |-> nested.cur,
                  calls |-> <<call>> \o nested.calls]
        ELSE [ret |-> "ok", cur |-> smcur, calls |-> <<call>>]

\* Fire, lines 66-72, from config c of the walk (the local variable current)
\* while sm.current is smcur.
WalkRun(c, smcur, seen, stack) ==
    IF c = Nil THEN [ret |-> "ok", cur |-> smcur, calls |-> <<>>]
    ELSE IF c \in seen THEN [ret |-> Diverges, cur |-> smcur, calls |-> <<>>]
    ELSE LET cfg == stateToConfig[c]
         IN  IF cfg.onExit = NoHook
             THEN WalkRun(cfg.parent, smcur, seen \cup {c}, stack)
             ELSE LET mine == HookRun("onExit", cfg.state, Nil, cfg.onExit, Nil, smcur, stack)
                  IN  IF mine.ret = Diverges THEN mine
                      ELSE LET rest == WalkRun(cfg.parent, mine.cur, seen \cup {c}, stack)
                           IN  [ret |-> rest.ret, cur |-> rest.cur,
                                calls |-> mine.calls \o rest.calls]

\* Fire without the assignment to sm.current after the exit walk: the
\* entry hooks are those of the state a nested Fire left current.
EnterRunKeepsNested(edge, ctx, walk, stack) ==
    LET target == walk.cur
        cfg == stateToConfig[target]
        enter == IF cfg.onEnter /= NoHook
                 THEN HookRun("onEnter", cfg.state, Nil, cfg.onEnter, Nil, target, stack)
                 ELSE [ret |-> "ok", cur |-> target, calls |-> <<>>]
    IN  [ret |-> enter.ret, cur |-> enter.cur, calls |-> walk.calls \o enter.calls]

\* Fire, lines 75-85: sm.current is assigned the edge's target whatever the
\* hooks of the walk left there; onEnterFrom is looked up in that config;
\* onEnter is read from sm.current again after the onEnterFrom hook ran.
EnterRun(edge, ctx, walk, stack) ==
    LET target == NextCurrent(edge)
        cfg == stateToConfig[target]
        from == IF edge.trigger \in DOMAIN cfg.onEnterFrom
                THEN HookRun("onEnterFrom", cfg.state, edge.trigger,
                             cfg.onEnterFrom[edge.trigger], ctx, target, stack)
                ELSE [ret |-> "ok", cur |-> target, calls |-> <<>>]
    IN  IF from.ret = Diverges
        THEN [ret |-> Diverges, cur |-> from.cur, calls |-> walk.calls \o from.calls]
        ELSE LET now == stateToConfig[from.cur]
                 enter == IF now.onEnter /= NoHook
                          THEN HookRun("onEnter", now.state, Nil, now.onEnter, Nil,
                                       from.cur, stack)
                          ELSE [ret |-> "ok", cur |-> from.cur, calls |-> <<>>]
             IN  [ret |-> enter.ret, cur |-> enter.cur,
                  calls |-> walk.calls \o from.calls \o enter.calls]

\* sm.Fire(triggerKey, ctx) entered while sm.current is cur.
FireRun(cur, triggerKey, ctx, stack) ==
    IF <<cur, triggerKey>> \in stack
    THEN [ret |-> Diverges, cur |-> cur, calls |-> <<>>]
    ELSE IF ~CanFireAt(cur, triggerKey)
    THEN [ret |-> ErrUnsupported, cur |-> cur, calls |-> <<>>]
    ELSE LET edge == stateToConfig[cur].permitted[triggerKey]
             targetParent == stateToConfig[edge.state].parent
             inner == stack \cup {<<cur, triggerKey>>}
             walk == IF targetParent = Nil
                        \/ stateToConfig[targetParent].state /= stateToConfig[cur].state
                     THEN WalkRun(cur, cur, {}, inner)
                     ELSE [ret |-> "ok", cur |-> cur, calls |-> <<>>]
         IN  IF walk.ret = Diverges THEN walk
             ELSE EnterRun(edge, ctx, walk, inner)

\* Some registered hook calls back into the machine.
UsesReentrantHooks ==
    \E s \in DOMAIN stateToConfig :
        \/ stateToConfig[s].onEnter \in ReentrantHooks
        \/ stateToConfig[s].onExit \in ReentrantHooks
        \/ \E t \in DOMAIN stateToConfig[s].onEnterFrom :
              stateToConfig[s].onEnterFrom[t] \in ReentrantHooks

\* ------------------------------------------------------------ configuration
\* Permit updating an existing edge in place: its guards stay.
PermitEdgesKeepsGuards(c, t, s) ==
    LET permitted == stateToConfig[c].permitted
    IN  MapPut(permitted, t.Key,
               IF t.Key \in DOMAIN permitted
               THEN [permitted[t.Key] EXCEPT !.state = s]
               ELSE Edge(t, s, <<>>))

\* Permit, line 35: the permitted map of config c after c.Permit(t, s).
PermitEdges(c, t, s) ==
    MapPut(stateToConfig[c].permitted, t.Key, Edge(t, s, <<>>))

\* PermitIf setting the target of an existing edge too.
PermitIfEdgesRetargets(c, t, s, pred) ==
    LET permitted == stateToConfig[c].permitted
        val == IF t.Key \in DOMAIN permitted
               THEN [permitted[t.Key] EXCEPT !.state = s]
               ELSE Edge(t, s, <<>>)
    IN  MapPut(permitted, t.Key, [val EXCEPT !.preds = Append(val.preds, pred)])

\* PermitIf putting the new guard in front of the edge's guard list.
PermitIfEdgesPrepends(c, t, s, pred) ==
    LET permitted == stateToConfig[c].permitted
        val == IF t.Key \in DOMAIN permitted
               THEN permitted[t.Key]
               ELSE Edge(t, s, <<>>)
    IN  MapPut(permitted, t.Key, [val EXCEPT !.preds = <<pred>> \o val.preds])

\* PermitIf, lines 45-51: the permitted map of c after c.PermitIf(t, s, pred).
PermitIfEdges(c, t, s, pred) ==
    LET permitted == stateToConfig[c].permitted
        val == IF t.Key \in DOMAIN permitted
               THEN permitted[t.Key]
               ELSE Edge(t, s, <<>>)
    IN  MapPut(permitted, t.Key, [val EXCEPT !.preds = Append(val.preds, pred)])

\* The history of a (state, key) for which neither Permit nor PermitIf was
\* called.  first: the target state given in the first Permit or PermitIf
\* call.  permit: "never" when Permit was not called, "unguarded" when no
\* PermitIf call followed the most recent Permit call, "guarded" otherwise.
NoHist == [first |-> Nil, permit |-> "never"]

Init ==
    /\ caller \in Callers
    /\ current = "s1"
    /\ stateToConfig = registerStateConfig([s \in {} |-> Nil], current)
    /\ allow = [g \in Guards |-> FALSE]
    /\ last = NoCall
    /\ permitHist = [s \in States |-> [k \in Keys |-> NoHist]]
    /\ ncalls = [permit |-> 0, permitIf |-> 0, hook |-> 0, sub |-> 0]

\* Configure making the state it is given the current state.
ConfigureMakesCurrent(s) ==
    /\ last.ret /= Diverges
    /\ stateToConfig' = registerStateConfig(stateToConfig, s)
    /\ current' = s
    /\ last' = NoCall
    /\ UNCHANGED <<allow, permitHist, caller, ncalls>>

\* sm.Configure(s)
Configure(s) ==
    /\ last.ret /= Diverges
    /\ stateToConfig' = registerStateConfig(stateToConfig, s)
    /\ last' = NoCall
    /\ UNCHANGED <<current, allow, permitHist, caller, ncalls>>

\* c.Permit(t, s), c a config obtained from Configure
Permit(c, t, s) ==
    /\ last.ret /= Diverges
    /\ c \in DOMAIN stateToConfig
    /\ ncalls.permit < caller.permit
    /\ LET reg == registerStateConfig(stateToConfig, s)
       IN  stateToConfig' =
               [reg EXCEPT ![c] = [reg[c] EXCEPT !.permitted = PermitEdges(c, t, s)]]
    /\ last' = NoCall
    /\ permitHist' = [permitHist EXCEPT ![c][t.Key] =
                          [first |-> IF @.first = Nil THEN s ELSE @.first,
                           permit |-> "unguarded"]]
    /\ ncalls' = [ncalls EXCEPT !.permit = @ + 1]
    /\ UNCHANGED <<current, allow, caller>>

\* c.PermitIf(t, s, pred), pred the guard closure that reads allow[g]
PermitIf(c, t, s, g) ==
    /\ last.ret /= Diverges
    /\ c \in DOMAIN stateToConfig
    /\ ncalls.permitIf < caller.permitIf
    /\ LET reg == registerStateConfig(stateToConfig, s)
       IN  stateToConfig' =
               [reg EXCEPT ![c] = [reg[c] EXCEPT !.permitted = PermitIfEdges(c, t, s, g)]]
    /\ last' = NoCall
    /\ permitHist' = [permitHist EXCEPT ![c][t.Key] =
                          [first |-> IF @.first = Nil THEN s ELSE @.first,
                           permit |-> IF @.permit = "never" THEN "never" ELSE "guarded"]]
    /\ ncalls' = [ncalls EXCEPT !.permitIf = @ + 1]
    /\ UNCHANGED <<current, allow, caller>>

\* OnEnter keeping a hook that is already set.
OnEnterKeepsFirst(c, h) ==
    /\ last.ret /= Diverges
    /\ c \in DOMAIN stateToConfig
    /\ ncalls.hook < caller.hook
    /\ stateToConfig' = [stateToConfig EXCEPT ![c].onEnter = IF @ = NoHook THEN h ELSE @]
    /\ last' = NoCall
    /\ ncalls' = [ncalls EXCEPT !.hook = @ + 1]
    /\ UNCHANGED <<current, allow, permitHist, caller>>

\* c.OnEnter(f)
OnEnter(c, h) ==
    /\ last.ret /= Diverges
    /\ c \in DOMAIN stateToConfig
    /\ ncalls.hook < caller.hook
    /\ stateToConfig' = [stateToConfig EXCEPT ![c].onEnter = h]
    /\ last' = NoCall
    /\ ncalls' = [ncalls EXCEPT !.hook = @ + 1]
    /\ UNCHANGED <<current, allow, permitHist, caller>>

\* c.OnEnterFrom(t, f)
OnEnterFrom(c, t, h) ==
    /\ last.ret /= Diverges
    /\ c \in DOMAIN stateToConfig
    /\ ncalls.hook < caller.hook
    /\ stateToConfig' =
           [stateToConfig EXCEPT ![c].onEnterFrom = MapPut(@, t, h)]
    /\ last' = NoCall
    /\ ncalls' = [ncalls EXCEPT !.hook = @ + 1]
    /\ UNCHANGED <<current, allow, permitHist, caller>>

\* c.OnExit(f)
OnExit(c, h) ==
    /\ last.ret /= Diverges
    /\ c \in DOMAIN stateToConfig
    /\ ncalls.hook < caller.hook
    /\ stateToConfig' = [stateToConfig EXCEPT ![c].onExit = h]
    /\ last' = NoCall
    /\ ncalls' = [ncalls EXCEPT !.hook = @ + 1]
    /\ UNCHANGED <<current, allow, permitHist, caller>>

\* c.SubstateOf(s)
SubstateOf(c, s) ==
    /\ last.ret /= Diverges
    /\ c \in DOMAIN stateToConfig
    /\ ncalls.sub < caller.sub
    /\ LET reg == registerStateConfig(stateToConfig, s)
       IN  stateToConfig' = [reg EXCEPT ![c] = [reg[c] EXCEPT !.parent = s]]
    /\ last' = NoCall
    /\ ncalls' = [ncalls EXCEPT !.sub = @ + 1]
    /\ UNCHANGED <<current, allow, permitHist, caller>>

\* The guards some edge holds: the closures that exist.
RegisteredGuards ==
    {g \in Guards : \E c \in DOMAIN stateToConfig :
        \E k \in DOMAIN stateToConfig[c].permitted :
            \E i \in 1..Len(stateToConfig[c].permitted[k].preds) :
                stateToConfig[c].permitted[k].preds[i] = g}

\* The caller assigns the variable that guard closure g reads.
SetAllow(g, v) ==
    /\ last.ret /= Diverges
    /\ g \in RegisteredGuards
    /\ allow[g] /= v
    /\ allow' = [allow EXCEPT ![g] = v]
    /\ last' = NoCall
    /\ UNCHANGED <<current, stateToConfig, permitHist, caller, ncalls>>

\* sm.Fire(triggerKey, ctx)
Fire(triggerKey, ctx) ==
    /\ last.ret /= Diverges
    /\ LET can == CanFireRun(triggerKey)
           call == [op |-> "Fire", key |-> triggerKey, from |-> State,
                    ret |-> Nil, calls |-> <<>>, evals |-> can.evals]
       IN  IF ~can.ret
           THEN /\ last' = [call EXCEPT !.ret = ErrUnsupported]
                /\ UNCHANGED current
           ELSE LET edge == stateToConfig[current].permitted[triggerKey]
                    targetParent == stateToConfig[edge.state].parent
                    walk == IF SkipsExitWalk(targetParent)
                            THEN [calls |-> <<>>, loops |-> FALSE]
                            ELSE ExitWalk(current, {})
                    exits == RunHooks(walk.calls)
                    enters == RunHooks(EnterCalls(NextCurrent(edge), edge.trigger, ctx))
                    run == FireRun(current, triggerKey, ctx, {})
                IN  IF UsesReentrantHooks
                    THEN /\ current' = run.cur
                         /\ last' = [call EXCEPT !.ret = run.ret, !.calls = run.calls]
                    ELSE IF exits.panics
                    THEN /\ last' = [call EXCEPT !.ret = Panicked, !.calls = exits.calls]
                         /\ UNCHANGED current
                    ELSE IF walk.loops
                    THEN /\ last' = [call EXCEPT !.ret = Diverges, !.calls = walk.calls]
                         /\ UNCHANGED current
                    ELSE /\ current' = NextCurrent(edge)
                         /\ last' = [call EXCEPT
                                !.ret = IF enters.panics THEN Panicked ELSE "ok",
                                !.calls = exits.calls \o enters.calls]
    /\ UNCHANGED <<stateToConfig, allow, permitHist, caller, ncalls>>

Next ==
    \/ \E s \in caller.states : Configure(s)
    \/ \E c \in caller.states, k \in caller.keys, s \in caller.states :
           Permit(c, Trigger(k), s)
    \/ \E c \in caller.states, k \in caller.keys, s \in caller.states, g \in caller.guards :
           PermitIf(c, Trigger(k), s, g)
    \/ \E c \in caller.states, h \in caller.hooks : OnEnter(c, h)
    \/ \E c \in caller.states, k \in caller.keys, h \in caller.hooks :
           OnEnterFrom(c, Trigger(k), h)
    \/ \E c \in caller.states, h \in caller.hooks : OnExit(c, h)
    \/ \E c \in caller.states, s \in caller.states : SubstateOf(c, s)
    \/ \E g \in Guards, v \in BOOLEAN : SetAllow(g, v)
    \/ \E k \in Keys, x \in Ctxs : Fire(k, x)

Spec == Init /\ [][Next]_vars

\* A program that registers two different hook closures and renames parents.
OverwriteCaller ==
    [states |-> States, keys |-> {"tr1"}, guards |-> {}, hooks |-> Hooks,
     permit |-> OverwritePermitCalls, permitIf |-> 0,
     hook |-> OverwriteHookCalls, sub |-> OverwriteSubstateCalls]

\* The machine driven by the program that registers hooks and parents anew.
InitOverwrite ==
    /\ caller = OverwriteCaller
    /\ current = "s1"
    /\ stateToConfig = registerStateConfig([s \in {} |-> Nil], current)
    /\ allow = [g \in Guards |-> FALSE]
    /\ last = NoCall
    /\ permitHist = [s \in States |-> [k \in Keys |-> NoHist]]
    /\ ncalls = [permit |-> 0, permitIf |-> 0, hook |-> 0, sub |-> 0]

NextOverwrite ==
    \/ \E s \in caller.states : Configure(s)
    \/ \E c \in caller.states, k \in caller.keys, s \in caller.states :
           Permit(c, Trigger(k), s)
    \/ \E c \in caller.states, h \in caller.hooks : OnEnter(c, h)
    \/ \E c \in caller.states, k \in caller.keys, h \in caller.hooks :
           OnEnterFrom(c, Trigger(k), h)
    \/ \E c \in caller.states, h \in caller.hooks : OnExit(c, h)
    \/ \E c \in caller.states, s \in caller.states : SubstateOf(c, s)
    \/ \E k \in Keys, x \in Ctxs : Fire(k, x)

SpecOverwrite == InitOverwrite /\ [][NextOverwrite]_vars

\* A program one of whose hook closures fires a trigger.
ReentrantCaller ==
    [states |-> {"s1", "s2"}, keys |-> Keys, guards |-> {}, hooks |-> {"h1"} \cup ReentrantHooks,
     permit |-> ReentrantPermitCalls, permitIf |-> 0,
     hook |-> ReentrantHookCalls, sub |-> ReentrantSubstateCalls]

\* The machine driven by the program with the hook that fires a trigger.
InitReentrant ==
    /\ caller = ReentrantCaller
    /\ current = "s1"
    /\ stateToConfig = registerStateConfig([s \in {} |-> Nil], current)
    /\ allow = [g \in Guards |-> FALSE]
    /\ last = NoCall
    /\ permitHist = [s \in States |-> [k \in Keys |-> NoHist]]
    /\ ncalls = [permit |-> 0, permitIf |-> 0, hook |-> 0, sub |-> 0]

NextReentrant ==
    \/ \E s \in caller.states : Configure(s)
    \/ \E c \in caller.states, k \in caller.keys, s \in caller.states :
           Permit(c, Trigger(k), s)
    \/ \E c \in caller.states, h \in caller.hooks : OnEnter(c, h)
    \/ \E c \in caller.states, h \in caller.hooks : OnExit(c, h)
    \/ \E c \in caller.states, s \in caller.states : SubstateOf(c, s)
    \/ \E k \in Keys, x \in Ctxs : Fire(k, x)

SpecReentrant == InitReentrant /\ [][NextReentrant]_vars

\* The machine driven by the program whose hooks may panic; the program
\* recovers from the panic that leaves Fire and goes on.
InitPanic ==
    /\ caller = PanicCaller
    /\ current = "s1"
    /\ stateToConfig = registerStateConfig([s \in {} |-> Nil], current)
    /\ allow = [g \in Guards |-> FALSE]
    /\ last = NoCall
    /\ permitHist = [s \in States |-> [k \in Keys |-> NoHist]]
    /\ ncalls = [permit |-> 0, permitIf |-> 0, hook |-> 0, sub |-> 0]

NextPanic ==
    \/ \E s \in caller.states : Configure(s)
    \/ \E c \in caller.states, k \in caller.keys, s \in caller.states :
           Permit(c, Trigger(k), s)
    \/ \E c \in caller.states, h \in caller.hooks : OnEnter(c, h)
    \/ \E c \in caller.states, k \in caller.keys, h \in caller.hooks :
           OnEnterFrom(c, Trigger(k), h)
    \/ \E c \in caller.states, h \in caller.hooks : OnExit(c, h)
    \/ \E k \in Keys, x \in Ctxs : Fire(k, x)

SpecPanic == InitPanic /\ [][NextPanic]_vars

\* ---------------------------------------------------------------- properties
\* What the properties below speak of, stated on the data alone.

\* State s has an edge registered for trigger key k.
HasEdge(s, k) == s \in DOMAIN stateToConfig /\ k \in DOMAIN stateToConfig[s].permitted
EdgeOf(s, k) == stateToConfig[s].permitted[k]

\* Some guard of the edge for k on s returns true now.
SomeGuardTrue(s, k) == \E i \in 1..Len(EdgeOf(s, k).preds) : allow[EdgeOf(s, k).preds[i]]

\* The edge for k on s has guards and all of them return false now.
AllGuardsFalse(s, k) == Len(EdgeOf(s, k).preds) > 0 /\ ~SomeGuardTrue(s, k)

\* The hook invocations of kind in a call log, in order.
CallsOfKind(calls, kind) == SelectSeq(calls, LAMBDA c : c.kind = kind)

\* C1: for every trigger key k with no edge on the current state, or whose
\* edge has guards that all return false, Fire(k, ctx) returns the error
\* "unsupported trigger" (one error for both cases), leaves State() as it was
\* and invokes no OnExit, OnEnter or OnEnterFrom hook.
C1_RejectedFireChangesNothing ==
    [][\A k \in Keys, x \in Ctxs :
        (Fire(k, x) /\ (~HasEdge(current, k) \/ AllGuardsFalse(current, k)))
            => /\ last'.ret = ErrUnsupported
               /\ State' = State
               /\ last'.calls = <<>>
               /\ stateToConfig' = stateToConfig]_vars

\* C1 witness: a Fire was rejected on an edge whose two guards are both
\* false, in a state that has an OnExit hook to invoke.
C1_Witness ==
    /\ last.op = "Fire"
    /\ last.ret = ErrUnsupported
    /\ HasEdge(current, last.key)
    /\ Len(EdgeOf(current, last.key).preds) = 2
    /\ AllGuardsFalse(current, last.key)
    /\ stateToConfig[current].onExit /= NoHook

\* C2: for every trigger key k for which CanFire(k) is true, Fire(k, ctx)
\* returns no error, and when it has returned State() is the target state of
\* the edge registered for k on the state that was current at the call.
C2_PermittedFireReachesTarget ==
    [][\A k \in Keys, x \in Ctxs :
        (Fire(k, x) /\ CanFire(k))
            => /\ last'.ret \in {"ok", Diverges}
               /\ last'.ret = "ok" => State' = EdgeOf(current, k).state]_vars

\* C2 witness: a Fire through one of two edges of a state returned and moved
\* the machine to that edge's target, not the other edge's.
C2_Witness ==
    /\ last.op = "Fire"
    /\ last.ret = "ok"
    /\ \A k \in Keys : HasEdge(last.from, k)
    /\ \E k \in Keys : EdgeOf(last.from, k).state /= EdgeOf(last.from, last.key).state
    /\ current = EdgeOf(last.from, last.key).state

\* C3: CanFire(k) is true exactly when the current state has an edge for k
\* that has no guards or at least one guard returning true now; guards are
\* evaluated anew on each call, so setting a guard of the edge to true makes
\* CanFire(k) true with no registration in between.
C3_CanFireIffSomeGuard ==
    /\ [](\A k \in Keys :
            CanFire(k) <=> /\ HasEdge(current, k)
                           /\ \/ EdgeOf(current, k).preds = <<>>
                              \/ SomeGuardTrue(current, k))
    /\ [][\A k \in Keys, g \in Guards :
            (SetAllow(g, TRUE) /\ HasEdge(current, k) /\ ~CanFire(k)
                /\ \E i \in 1..Len(EdgeOf(current, k).preds) : EdgeOf(current, k).preds[i] = g)
            => CanFire(k)']_vars

\* C3 witness: CanFire is true for an edge whose first guard is false and
\* whose second guard is true.
C3_Witness ==
    \E k \in Keys :
        /\ HasEdge(current, k)
        /\ Len(EdgeOf(current, k).preds) = 2
        /\ ~allow[EdgeOf(current, k).preds[1]]
        /\ allow[EdgeOf(current, k).preds[2]]
        /\ CanFire(k)

\* C4 as claimed: once Permit(T, X) was called on S, CanFire(T.Key) is true
\* whenever the current state is S, whatever configuration calls followed.
C4_PermitAlwaysSatisfiable ==
    \A k \in Keys :
        permitHist[current][k].permit /= "never" => CanFire(k)

\* C4 as amended: once Permit(T, X) was called on S, CanFire(T.Key) is true
\* whenever the current state is S, as long as no PermitIf for T.Key was
\* called on S after the most recent Permit for it.
C4_PermitSatisfiableUntilPermitIf ==
    \A k \in Keys :
        permitHist[current][k].permit = "unguarded" => CanFire(k)

\* C4 witness: Permit was called for a key on the current state after a
\* PermitIf, no PermitIf for that key followed, and CanFire is true while
\* every guard variable is false.
C4_Witness ==
    \E k \in Keys :
        /\ permitHist[current][k].permit = "unguarded"
        /\ ncalls.permitIf > 0
        /\ \A g \in Guards : ~allow[g]
        /\ CanFire(k)

\* C5 as claimed: the target given in the first Permit or PermitIf call for a
\* key on a state is the edge's target after any later Permit and PermitIf
\* calls for that key on that state.
C5_FirstTargetAuthoritative ==
    \A s \in States, k \in Keys :
        HasEdge(s, k) => EdgeOf(s, k).state = permitHist[s][k].first

\* C5 as amended: the target of an existing edge is kept by every later
\* PermitIf call for its key on its state; it changes only in a Permit call
\* for that key on that state, which sets it to the target that call gives.
C5_TargetChangesOnlyByPermit ==
    [][\A s \in States, k \in Keys :
        (HasEdge(s, k) /\ EdgeOf(s, k)'.state /= EdgeOf(s, k).state)
            => \E x \in States : Permit(s, Trigger(k), x) /\ EdgeOf(s, k)'.state = x]_vars

\* C5 witness: an edge that went through a later PermitIf call and a later
\* Permit call: its target is not the one the first call gave.
C5_Witness ==
    \E s \in States, k \in Keys :
        /\ HasEdge(s, k)
        /\ ncalls.permitIf > 0
        /\ permitHist[s][k].permit = "unguarded"
        /\ EdgeOf(s, k).state /= permitHist[s][k].first

\* The parent of state s ("nil" for none), and its n-th ancestor.
Parent(s) == stateToConfig[s].parent
RECURSIVE Up(_, _)
Up(s, n) ==
    IF n = 0 THEN s
    ELSE LET below == Up(s, n - 1)
         IN  IF below = Nil THEN Nil ELSE Parent(below)

\* Following parent references from s never ends.
CyclicChain(s) == Up(s, Cardinality(DOMAIN stateToConfig)) /= Nil

\* s and its ancestors, child first: s, its parent, its grandparent, ... up
\* to the root (for a chain that ends).
AncestorSeq(s) ==
    LET n == CHOOSE m \in 1..Cardinality(DOMAIN stateToConfig) : Up(s, m) = Nil /\ Up(s, m - 1) /= Nil
    IN  [i \in 1..n |-> Up(s, i - 1)]

\* s and its transitive ancestors, as a set.
AncestorSet(s) == {Up(s, n) : n \in 0..Cardinality(DOMAIN stateToConfig)} \ {Nil}

\* Which hook ran on which state, for each invocation of a call log.
RanOn(calls) == [i \in 1..Len(calls) |-> [on |-> calls[i].on, hook |-> calls[i].hook]]

\* The set OnExit hooks of s and its ancestors, child first.
ExitHooksUp(s) ==
    LET hooked == SelectSeq(AncestorSeq(s), LAMBDA a : stateToConfig[a].onExit /= NoHook)
    IN  [i \in 1..Len(hooked) |-> [on |-> hooked[i], hook |-> stateToConfig[hooked[i]].onExit]]

\* C6: on every successful Fire from current state C to target T: when T's
\* parent is set and is C, no OnExit hook is invoked; otherwise (T has no
\* parent or another parent, C being T's grandparent included) the set OnExit
\* hooks of C, C's parent, ... up to the root are invoked, each once, child
\* first.
C6_ExitWalkUnlessDirectSubstate ==
    [][\A k \in Keys, x \in Ctxs :
        (Fire(k, x) /\ last'.ret = "ok")
            => LET C == current
                   T == EdgeOf(C, k).state
                   exits == CallsOfKind(last'.calls, "onExit")
               IN  IF Parent(T) /= Nil /\ Parent(T) = C
                   THEN exits = <<>>
                   ELSE ~CyclicChain(C) /\ RanOn(exits) = ExitHooksUp(C)]_vars

\* C6 witness: a Fire from C into a state whose grandparent, not parent, is C
\* has invoked C's OnExit hook.
C6_Witness ==
    /\ last.op = "Fire"
    /\ last.ret = "ok"
    /\ Parent(current) \notin {Nil, last.from}
    /\ Parent(Parent(current)) = last.from
    /\ Len(last.calls) = 1
    /\ last.calls[1].kind = "onExit"
    /\ last.calls[1].on = last.from

\* C7: within one successful Fire(k, ctx) the hooks run in this order: every
\* OnExit hook of the exit walk, then the target's OnEnterFrom hook for k if
\* one is registered, then the target's OnEnter hook if one is set; with both
\* registered, both run, OnEnterFrom first.
C7_ExitThenEnterFromThenEnter ==
    (last.op = "Fire" /\ last.ret = "ok")
        => LET calls == last.calls
               target == stateToConfig[current]
               trigger == Trigger(last.key)
               nExit == Len(CallsOfKind(calls, "onExit"))
               nFrom == IF trigger \in DOMAIN target.onEnterFrom THEN 1 ELSE 0
               nEnter == IF target.onEnter /= NoHook THEN 1 ELSE 0
           IN  /\ Len(calls) = nExit + nFrom + nEnter
               /\ \A i \in 1..nExit : calls[i].kind = "onExit"
               /\ nFrom = 1 => /\ calls[nExit + 1].kind = "onEnterFrom"
                               /\ calls[nExit + 1].on = current
                               /\ calls[nExit + 1].trigger = trigger
                               /\ calls[nExit + 1].hook = target.onEnterFrom[trigger]
               /\ nEnter = 1 => /\ calls[nExit + nFrom + 1].kind = "onEnter"
                                /\ calls[nExit + nFrom + 1].on = current
                                /\ calls[nExit + nFrom + 1].hook = target.onEnter

\* C7 witness: a Fire has run an OnExit hook, then the OnEnterFrom hook, then
\* the OnEnter hook.
C7_Witness ==
    /\ last.op = "Fire"
    /\ last.ret = "ok"
    /\ Len(last.calls) = 3
    /\ last.calls[1].kind = "onExit"
    /\ last.calls[2].kind = "onEnterFrom"
    /\ last.calls[3].kind = "onEnter"

\* C8: a successful Fire whose edge target is the current state S, S having
\* OnExit and OnEnter hooks and the edge coming from Permit(T, S), invokes S's
\* OnExit and then S's OnEnter, whatever SubstateOf configuration S has.
C8_ReentryRunsExitThenEnter ==
    (/\ last.op = "Fire"
     /\ last.ret = "ok"
     /\ current = last.from
     /\ EdgeOf(current, last.key).preds = <<>>
     /\ stateToConfig[current].onExit /= NoHook
     /\ stateToConfig[current].onEnter /= NoHook)
        => \E i, j \in 1..Len(last.calls) :
              /\ i < j
              /\ last.calls[i].kind = "onExit" /\ last.calls[i].on = current
              /\ last.calls[j].kind = "onEnter" /\ last.calls[j].on = current

\* The invocations, in a call log, of the OnEnterFrom hook registered on X
\* for trigger T.
EnterFromRuns(calls, X, T) ==
    {i \in 1..Len(calls) :
        calls[i].kind = "onEnterFrom" /\ calls[i].on = X /\ calls[i].trigger = T}

\* C9: the OnEnterFrom hook registered on state X for trigger T is invoked by
\* a Fire exactly when that Fire succeeds, its target is X and its trigger
\* key is T.Key, and then once, with the context value passed to that Fire; a
\* successful Fire into X through another trigger invokes X's OnEnter hook
\* and not that hook.
C9_EnterFromOnlyForItsTrigger ==
    [][\A k \in Keys, x \in Ctxs :
        Fire(k, x)
            => /\ \A X \in DOMAIN stateToConfig :
                   \A T \in DOMAIN stateToConfig[X].onEnterFrom :
                      LET runs == EnterFromRuns(last'.calls, X, T)
                      IN  /\ runs /= {} <=> (last'.ret = "ok" /\ State' = X /\ T.Key = k)
                          /\ Cardinality(runs) <= 1
                          /\ \A i \in runs :
                                /\ last'.calls[i].arg = x
                                /\ last'.calls[i].hook = stateToConfig[X].onEnterFrom[T]
                          /\ (/\ last'.ret = "ok" /\ State' = X /\ T.Key /= k
                              /\ stateToConfig[X].onEnter /= NoHook)
                                => \E i \in 1..Len(last'.calls) :
                                      /\ last'.calls[i].kind = "onEnter"
                                      /\ last'.calls[i].on = X
               /\ \A i \in 1..Len(last'.calls) :
                     last'.calls[i].kind = "onEnterFrom"
                        => last'.calls[i].trigger
                               \in DOMAIN stateToConfig[last'.calls[i].on].onEnterFrom]_vars

\* C9 witness: a Fire has entered a state that has an OnEnter hook and an
\* OnEnterFrom hook for another trigger: OnEnter ran, the OnEnterFrom hook
\* did not.
C9_Witness ==
    /\ last.op = "Fire"
    /\ last.ret = "ok"
    /\ stateToConfig[current].onEnter /= NoHook
    /\ \E T \in DOMAIN stateToConfig[current].onEnterFrom : T.Key /= last.key
    /\ CallsOfKind(last.calls, "onEnterFrom") = <<>>
    /\ CallsOfKind(last.calls, "onEnter") /= <<>>

\* C10: IsInState(s) is true exactly when s is the current state or one of
\* its transitive ancestors; after a transition out of a substate chain to a
\* state unrelated to it, IsInState is not true for any state of the chain
\* left, and returns false for each when the new chain ends.
C10_IsInStateIffAncestor ==
    /\ [](\A s \in States : IsInState(s) = "true" <=> s \in AncestorSet(current))
    /\ [][\A k \in Keys, x \in Ctxs :
            (Fire(k, x) /\ last'.ret = "ok"
                /\ AncestorSet(current) \cap AncestorSet(current)' = {})
            => \A s \in AncestorSet(current) :
                  /\ IsInState(s)' /= "true"
                  /\ ~CyclicChain(current)' => IsInState(s)' = "false"]_vars

\* C10 witness: a Fire has left a chain of a substate and its parent for an
\* unrelated state, and IsInState is false for both states left.
C10_Witness ==
    /\ last.op = "Fire"
    /\ last.ret = "ok"
    /\ Parent(last.from) \notin {Nil, last.from}
    /\ AncestorSet(last.from) \cap AncestorSet(current) = {}
    /\ \A s \in AncestorSet(last.from) : IsInState(s) = "false"

\* C11: when the machine is in a substate S2 of S1, S1's OnExit hook is
\* invoked only by a Fire after which the machine is no longer in S1: every
\* OnExit hook that a successful Fire from S2 invokes on an ancestor of S2
\* belongs to a state for which IsInState is false once that Fire returned,
\* a self-transition of S2 and a transition to another substate of S1
\* included.
C11_ParentExitOnlyWhenLeft ==
    (last.op = "Fire" /\ last.ret = "ok")
        => \A i \in 1..Len(last.calls) :
              (last.calls[i].kind = "onExit" /\ last.calls[i].on /= last.from)
                  => IsInState(last.calls[i].on) = "false"

\* The registry entry of state s is the blank configuration it is created
\* with.
IsBlank(s) == stateToConfig[s] = NewStateConfig(s)

\* C12: the registry holds one configuration per state, filed under its own
\* state value, and every state named as the target of an edge or as a
\* parent is registered; no step removes an entry; an entry that a step adds
\* is blank; a Configure call on a registered state changes nothing (it
\* returns the configuration already there), and on an unregistered state
\* adds a blank configuration; and no step changes more than one of the
\* configurations already there, so none is replaced when it is named again.
C12_OneConfigPerState ==
    /\ [](\A s \in DOMAIN stateToConfig :
            /\ stateToConfig[s].state = s
            /\ stateToConfig[s].parent \in DOMAIN stateToConfig \cup {Nil}
            /\ \A k \in DOMAIN stateToConfig[s].permitted :
                  stateToConfig[s].permitted[k].state \in DOMAIN stateToConfig)
    /\ [][/\ DOMAIN stateToConfig \subseteq DOMAIN stateToConfig'
          /\ \A s \in DOMAIN stateToConfig' \ DOMAIN stateToConfig :
                stateToConfig'[s] = NewStateConfig(s)
          /\ Cardinality(DOMAIN stateToConfig' \ DOMAIN stateToConfig) <= 1
          /\ Cardinality({x \in DOMAIN stateToConfig :
                             stateToConfig'[x] /= stateToConfig[x]}) <= 1
          /\ \A s \in States :
                Configure(s)
                    => IF s \in DOMAIN stateToConfig
                       THEN stateToConfig' = stateToConfig
                       ELSE stateToConfig' = MapPut(stateToConfig, s, NewStateConfig(s))]_vars

\* C12 witness: a state that is neither the initial state nor the target of
\* any edge, and is the parent another state named in SubstateOf, has been
\* given an edge or a hook through its handle, and its child still refers to
\* that same configuration.
C12_Witness ==
    \E s \in DOMAIN stateToConfig, c \in DOMAIN stateToConfig :
        /\ s /= "s1"
        /\ c /= s
        /\ stateToConfig[c].parent = s
        /\ ~IsBlank(s)
        /\ \A x \in DOMAIN stateToConfig :
              \A k \in DOMAIN stateToConfig[x].permitted :
                  stateToConfig[x].permitted[k].state /= s

\* C13: in every reachable state the current state has a configuration in
\* the registry (from NewStateMachine on), and State() is changed only by
\* Fire: every step that is a Configure, Permit, PermitIf, OnEnter, OnExit,
\* OnEnterFrom or SubstateOf call leaves it as it was.  (CanFire, IsInState
\* and State assign nothing.)
C13_CurrentRegisteredOnlyFireMoves ==
    /\ [](current \in DOMAIN stateToConfig /\ State = current)
    /\ [][State' /= State => \E k \in Keys, x \in Ctxs : Fire(k, x)]_vars

\* C13 witness: after a Fire moved the machine off the initial state, a
\* configuration call was made and the current state stayed where Fire left
\* it.
C13_Witness ==
    /\ current /= "s1"
    /\ last.op = "none"
    /\ ~IsBlank(current)

\* C14: after any sequence of public operations the parent references form a
\* forest: following them from any registered state never comes back to a
\* state already visited.
C14_ParentsFormForest ==
    \A s \in DOMAIN stateToConfig : ~CyclicChain(s)

\* C15: (guards and hooks of the model return and do not call the machine)
\* every Fire call returns, with the error or after its exit walk and entry
\* hooks, and every IsInState call returns, in every reachable
\* configuration.
C15_FireAndIsInStateReturn ==
    /\ last.ret /= Diverges
    /\ \A s \in States : IsInState(s) /= Diverges

\* C16: PermitIf(t, s, p) on a state that has an edge for t.Key appends p to
\* the end of that edge's guard list and keeps the edge's target and earlier
\* guards (s is registered, not used as target); on a state with no edge for
\* t.Key it creates the edge with target s and guard list [p]; every other
\* edge of the state is as before.
C16_PermitIfAppendsGuard ==
    [][\A c \in DOMAIN stateToConfig, k \in Keys, s \in States, g \in Guards :
        (ncalls' /= ncalls /\ PermitIf(c, Trigger(k), s, g))
            => LET old == stateToConfig[c].permitted
                   new == stateToConfig'[c].permitted
               IN  /\ DOMAIN new = DOMAIN old \cup {k}
                   /\ \A j \in DOMAIN old \ {k} : new[j] = old[j]
                   /\ IF k \in DOMAIN old
                      THEN /\ new[k].state = old[k].state
                           /\ new[k].trigger = old[k].trigger
                           /\ new[k].preds = Append(old[k].preds, g)
                      ELSE new[k] = Edge(Trigger(k), s, <<g>>)
                   /\ s \in DOMAIN stateToConfig']_vars

\* C16 witness: an edge built by two PermitIf calls and no Permit call holds
\* two different guards, beside another edge of the same state.
C16_Witness ==
    \E s \in DOMAIN stateToConfig, k \in Keys :
        /\ HasEdge(s, k)
        /\ permitHist[s][k].permit = "never"
        /\ Len(EdgeOf(s, k).preds) = 2
        /\ EdgeOf(s, k).preds[1] /= EdgeOf(s, k).preds[2]
        /\ EdgeOf(s, k).state = permitHist[s][k].first
        /\ \E j \in Keys : j /= k /\ HasEdge(s, j)

\* C17: during a successful Fire from state C to a different state T, every
\* OnExit hook of the exit walk observes State() = C and the OnEnterFrom and
\* OnEnter hooks observe State() = T: the current state is reassigned after
\* the whole exit walk and before any entry hook.
C17_ExitSeesOldEnterSeesNew ==
    (last.op = "Fire" /\ last.ret = "ok" /\ current /= last.from)
        => \A i \in 1..Len(last.calls) :
              /\ last.calls[i].kind = "onExit" => last.calls[i].seen = last.from
              /\ last.calls[i].kind \in {"onEnterFrom", "onEnter"}
                    => last.calls[i].seen = current

\* C17 witness: a Fire to another state has run an OnExit hook, which saw
\* the state left, and an entry hook, which saw the target.
C17_Witness ==
    /\ last.op = "Fire"
    /\ last.ret = "ok"
    /\ current /= last.from
    /\ \E i, j \in 1..Len(last.calls) :
          /\ last.calls[i].kind = "onExit" /\ last.calls[i].seen = last.from
          /\ last.calls[j].kind = "onEnter" /\ last.calls[j].seen = current

\* The guards of a guard list that one pass in registration order invokes:
\* all up to and including the first that returns true now, or all of them
\* when none does.
UpToFirstTrue(preds) ==
    LET trueAt == {i \in 1..Len(preds) : allow[preds[i]]}
        stop == IF trueAt = {} THEN Len(preds)
                ELSE CHOOSE i \in trueAt : \A j \in trueAt : i <= j
    IN  SubSeq(preds, 1, stop)

\* C18: each CanFire call, and each Fire call through its internal check,
\* invokes the guards of the edge in registration order and stops at the
\* first that returns true: the guards registered before it are invoked once
\* each, those after it are not invoked, and a Fire call makes one such pass
\* only.
C18_GuardsInOrderUntilFirstTrue ==
    /\ \A k \in Keys :
          CanFireRun(k).evals =
              IF HasEdge(current, k) THEN UpToFirstTrue(EdgeOf(current, k).preds) ELSE <<>>
    /\ last.op = "Fire"
          => last.evals =
                 IF HasEdge(last.from, last.key)
                 THEN UpToFirstTrue(EdgeOf(last.from, last.key).preds)
                 ELSE <<>>

\* C18 witness: a successful Fire on an edge with two different guards, the
\* first false and the second true, invoked both, once each, in
\* registration order.
C18_Witness ==
    /\ last.op = "Fire"
    /\ last.ret = "ok"
    /\ Len(EdgeOf(last.from, last.key).preds) = 2
    /\ last.evals = EdgeOf(last.from, last.key).preds
    /\ last.evals[1] /= last.evals[2]
    /\ ~allow[last.evals[1]]
    /\ allow[last.evals[2]]

\* C19: when a hook panics during a Fire, the panic leaves Fire (Fire does
\* not return, and invokes no further hook) and the machine is left where
\* the panic found it: State() is still the state at the call when the hook
\* was an OnExit hook of the exit walk, and is already the target of the edge
\* when it was the OnEnterFrom or OnEnter hook.
C19_PanicLeavesPartialTransition ==
    last.op = "Fire"
        => LET n == Len(last.calls)
           IN  /\ \A i \in 1..n :
                     last.calls[i].hook \in PanicHooks
                         => i = n /\ last.ret = Panicked
               /\ last.ret = Panicked
                     => /\ n > 0
                        /\ last.calls[n].hook \in PanicHooks
                        /\ last.calls[n].kind = "onExit" => State = last.from
                        /\ last.calls[n].kind \in {"onEnterFrom", "onEnter"}
                              => State = EdgeOf(last.from, last.key).state

\* C19 witness: a Fire to another state ran the OnExit hook of the state
\* left, then the target's OnEnterFrom hook panicked: State() is the target
\* and the target's OnEnter hook was not invoked.
C19_Witness ==
    /\ last.op = "Fire"
    /\ last.ret = Panicked
    /\ current /= last.from
    /\ Len(last.calls) = 2
    /\ last.calls[1].kind = "onExit"
    /\ last.calls[2].kind = "onEnterFrom"
    /\ stateToConfig[current].onEnter /= NoHook

\* The hook slots that are set in the whole registry: a state's OnEnter, its
\* OnExit, and its OnEnterFrom per trigger.
HookSlots ==
    {<<s, "onEnter", Nil>> : s \in {x \in DOMAIN stateToConfig : stateToConfig[x].onEnter /= NoHook}}
    \cup {<<s, "onExit", Nil>> : s \in {x \in DOMAIN stateToConfig : stateToConfig[x].onExit /= NoHook}}
    \cup UNION {{<<s, "onEnterFrom", t>> : t \in DOMAIN stateToConfig[s].onEnterFrom} :
                   s \in DOMAIN stateToConfig}

\* C20: a state has one OnEnter hook, one OnExit hook, one OnEnterFrom hook
\* per trigger and one parent.  Each OnEnter, OnExit, OnEnterFrom or
\* SubstateOf call puts the value it is given in place of the one set before
\* and changes nothing else of the state; and a Fire that returns invokes,
\* for each state and kind of hook, at most one hook, once, and it is the
\* one set by the most recent call, the exit walk following the parents set
\* by the most recent SubstateOf calls only, as IsInState does.
C20_LatestRegistrationWins ==
    /\ [](last.op = "Fire" /\ last.ret = "ok"
            => /\ \A i \in 1..Len(last.calls) :
                     LET call == last.calls[i]
                         cfg == stateToConfig[call.on]
                     IN  /\ \A j \in 1..Len(last.calls) :
                               (last.calls[j].kind = call.kind /\ last.calls[j].on = call.on)
                                   => j = i
                         /\ call.kind = "onEnter" => call.hook = cfg.onEnter
                         /\ call.kind = "onExit"
                               => /\ call.hook = cfg.onExit
                                  /\ call.on \in AncestorSet(last.from)
                         /\ call.kind = "onEnterFrom" => call.hook = cfg.onEnterFrom[call.trigger]
               /\ \A s \in States : IsInState(s) = "true" <=> s \in AncestorSet(current))
    /\ [][\A c \in DOMAIN stateToConfig :
            LET old == stateToConfig[c]
                new == stateToConfig'[c]
            IN  /\ \A h \in Hooks :
                      /\ (ncalls' /= ncalls /\ OnEnter(c, h))
                            => new = [old EXCEPT !.onEnter = h]
                      /\ (ncalls' /= ncalls /\ OnExit(c, h))
                            => new = [old EXCEPT !.onExit = h]
                      /\ \A k \in Keys :
                            (ncalls' /= ncalls /\ OnEnterFrom(c, Trigger(k), h))
                                => /\ new = [old EXCEPT !.onEnterFrom = new.onEnterFrom]
                                   /\ DOMAIN new.onEnterFrom
                                          = DOMAIN old.onEnterFrom \cup {Trigger(k)}
                                   /\ new.onEnterFrom[Trigger(k)] = h
                                   /\ \A t \in DOMAIN old.onEnterFrom :
                                         t /= Trigger(k) => new.onEnterFrom[t] = old.onEnterFrom[t]
                /\ \A s \in States :
                      (ncalls' /= ncalls /\ SubstateOf(c, s))
                          => new = [old EXCEPT !.parent = s]]_vars

\* C20 witness: two hook registrations left one hook slot set, so the second
\* took the place of the first, and two SubstateOf calls left one parent
\* set; the Fire that followed walked to that parent and invoked the one
\* OnExit hook, once.
C20_Witness ==
    /\ last.op = "Fire"
    /\ last.ret = "ok"
    /\ ncalls.hook = 2
    /\ ncalls.sub = 2
    /\ Cardinality(HookSlots) = 1
    /\ Cardinality({s \in DOMAIN stateToConfig : Parent(s) /= Nil}) = 1
    /\ Parent(last.from) \notin {Nil, last.from}
    /\ Len(last.calls) = 1
    /\ last.calls[1].kind = "onExit"
    /\ last.calls[1].on = Parent(last.from)
    /\ last.calls[1].hook = "h2"

\* What C21 says of the most recent Fire.  unlessEntryFires: the statement
\* about State() is made only for an outer target whose own entry hooks do
\* not call Fire.
NestedFireOverwritten(unlessEntryFires) ==
    (last.op = "Fire" /\ last.ret = "ok")
        => LET calls == last.calls
               T == EdgeOf(last.from, last.key).state
               entryFires ==
                   \/ stateToConfig[T].onEnter \in ReentrantHooks
                   \/ \E t \in DOMAIN stateToConfig[T].onEnterFrom :
                         stateToConfig[T].onEnterFrom[t] \in ReentrantHooks
           IN  \A i \in 1..Len(calls) :
                  (/\ calls[i].kind = "onExit"
                   /\ calls[i].hook \in ReentrantHooks
                   /\ CanFireAt(calls[i].seen, NestedKey))
                      => LET N == EdgeOf(calls[i].seen, NestedKey).state
                         IN  /\ ~(unlessEntryFires /\ entryFires) => State = T
                             /\ stateToConfig[N].onEnter /= NoHook
                                    => \E j \in (i + 1)..Len(calls) :
                                          /\ calls[j].kind = "onEnter"
                                          /\ calls[j].on = N
                                          /\ calls[j].seen = N
                             /\ \A j \in (i + 1)..Len(calls) :
                                    ~(calls[j].kind = "onExit" /\ calls[j].on = N)

C22_OnlyTargetOnEnter ==
    (last.op = "Fire" /\ last.ret = "ok")
        => LET calls == last.calls
               enters == CallsOfKind(calls, "onEnter")
               skipped == Parent(current) /= Nil /\ Parent(current) = last.from
           IN  /\ Len(enters) <= 1
               /\ \A i \in 1..Len(enters) :
                     /\ enters[i].on = current
                     /\ enters[i].hook = stateToConfig[current].onEnter
               /\ \A a \in AncestorSet(current) \ {current} :
                     \A i \in 1..Len(calls) :
                         ~(calls[i].kind \in {"onEnter", "onEnterFrom"} /\ calls[i].on = a)
               /\ ~skipped
                     => \A a \in AncestorSet(last.from) :
                            stateToConfig[a].onExit /= NoHook
                                => Cardinality({i \in 1..Len(calls) :
                                       calls[i].kind = "onExit" /\ calls[i].on = a}) = 1

\* C22 witness: a Fire from a state outside the chain has entered a substate
\* of a parent that has an OnEnter hook and an OnExit hook: the machine is
\* in the parent, and no hook of the parent was invoked.
C22_Witness ==
    /\ last.op = "Fire"
    /\ last.ret = "ok"
    /\ Parent(current) \notin {Nil, current, last.from}
    /\ last.from \notin AncestorSet(current)
    /\ stateToConfig[Parent(current)].onEnter /= NoHook
    /\ stateToConfig[Parent(current)].onExit /= NoHook
    /\ IsInState(Parent(current)) = "true"
    /\ \A i \in 1..Len(last.calls) : last.calls[i].on /= Parent(current)

====
